---- MODULE Spec2Model ----
(***************************************************************************)
(* A model of server.py: the TaskManager store (load, save, create_task,   *)
(* complete_task, get_all), the JSON text it reads and writes, and the     *)
(* TaskHandler routes that call it.                                        *)
(***************************************************************************)
EXTENDS Integers, Sequences, FiniteSets, TLC

(***************************************************************************)
(* Bounds of the model.                                                    *)
(***************************************************************************)
\* The most tasks create_task adds to the list in one run of the process.
MaxCreates == 2
\* The most calls of save() whose I/O fails in one run of the process.
MaxIOFailures == 1
MaxThreadCalls == 2

(***************************************************************************)
(* Python values as json.loads builds them and json.dump reads them.       *)
(* Every value is a record of the same shape, t naming the Python type:    *)
(*   null -> None, bool -> b, num -> n (an int), str -> s,                 *)
(*   arr -> list of items, obj -> dict whose items are pairs (s the key,   *)
(*   items[1] the value) in insertion order.                               *)
(***************************************************************************)
JNull == [t |-> "null", s |-> "", n |-> 0, b |-> FALSE, items |-> <<>>]
JBool(b) == [t |-> "bool", s |-> "", n |-> 0, b |-> b, items |-> <<>>]
JNum(n) == [t |-> "num", s |-> "", n |-> n, b |-> FALSE, items |-> <<>>]
JStr(s) == [t |-> "str", s |-> s, n |-> 0, b |-> FALSE, items |-> <<>>]
JArr(items) == [t |-> "arr", s |-> "", n |-> 0, b |-> FALSE, items |-> items]
JObj(pairs) == [t |-> "obj", s |-> "", n |-> 0, b |-> FALSE, items |-> pairs]
Pair(key, val) == [t |-> "pair", s |-> key, n |-> 0, b |-> FALSE, items |-> <<val>>]

\* key in d
HasKey(d, key) == \E i \in 1..Len(d.items) : d.items[i].s = key
\* d[key], for a key that d has
Item(d, key) == d.items[CHOOSE i \in 1..Len(d.items) : d.items[i].s = key].items[1]
\* d.get(key): None when the key is absent
Get(d, key) == IF HasKey(d, key) THEN Item(d, key) ELSE JNull
\* d[key] = val: replaces the value in place, or appends a new key
DictSet(d, key, val) ==
    IF HasKey(d, key)
    THEN JObj([i \in 1..Len(d.items) |->
                 IF d.items[i].s = key THEN Pair(key, val) ELSE d.items[i]])
    ELSE JObj(Append(d.items, Pair(key, val)))
\* Python truthiness: bool(v)
Truthy(v) ==
    CASE v.t = "null" -> FALSE
      [] v.t = "bool" -> v.b
      [] v.t = "num" -> v.n # 0
      [] v.t = "str" -> v.s # ""
      [] OTHER -> v.items # <<>>

(***************************************************************************)
(* JSON text, as the sequence of its tokens. A number is written as its    *)
(* sign and decimal digits; true, false, null are literals.                *)
(***************************************************************************)
P(c) == [k |-> "p", s |-> c, cs |-> <<>>]
Lit(w) == [k |-> "lit", s |-> w, cs |-> <<>>]
StrTok(s) == [k |-> "str", s |-> s, cs |-> <<>>]
NumTok(sign, digits) == [k |-> "num", s |-> sign, cs |-> digits]
\* Text that is no JSON token at all.
Garbage == [k |-> "bad", s |-> "?", cs |-> <<>>]

DigitChars == <<"0", "1", "2", "3", "4", "5", "6", "7", "8", "9">>
IsDigit(c) == \E i \in 1..10 : DigitChars[i] = c
DigitVal(c) == (CHOOSE i \in 1..10 : DigitChars[i] = c) - 1

RECURSIVE NatToDigits(_)
\* str(n) for n >= 0
NatToDigits(n) ==
    IF n < 10 THEN <<DigitChars[n + 1]>>
    ELSE Append(NatToDigits(n \div 10), DigitChars[(n % 10) + 1])

RECURSIVE DigitsToNat(_)
\* the number a non-empty run of decimal digits denotes
DigitsToNat(cs) ==
    IF Len(cs) = 1 THEN DigitVal(cs[1])
    ELSE 10 * DigitsToNat(SubSeq(cs, 1, Len(cs) - 1)) + DigitVal(cs[Len(cs)])

RECURSIVE json_dumps(_)
RECURSIVE DumpItems(_, _)
\* The items of a list or dict from the i-th on, separated by commas.
DumpItems(items, i) ==
    IF i > Len(items) THEN <<>>
    ELSE (IF i > 1 THEN <<P(",")>> ELSE <<>>)
         \o (IF items[i].t = "pair"
             THEN <<StrTok(items[i].s), P(":")>> \o json_dumps(items[i].items[1])
             ELSE json_dumps(items[i]))
         \o DumpItems(items, i + 1)

\* json.dump / json.dumps: the text of a value
json_dumps(v) ==
    CASE v.t = "null" -> <<Lit("null")>>
      [] v.t = "bool" -> <<Lit(IF v.b THEN "true" ELSE "false")>>
      [] v.t = "num" ->
            <<IF v.n < 0 THEN NumTok("-", NatToDigits(-v.n))
                         ELSE NumTok("", NatToDigits(v.n))>>
      [] v.t = "str" -> <<StrTok(v.s)>>
      [] v.t = "arr" -> <<P("[")>> \o DumpItems(v.items, 1) \o <<P("]")>>
      [] OTHER -> <<P("{")>> \o DumpItems(v.items, 1) \o <<P("}")>>

\* What a parse step returns: ok, the value, and the next unread position.
Parsed(v, next) == [ok |-> TRUE, val |-> v, next |-> next]
ParseError == [ok |-> FALSE, val |-> JNull, next |-> 0]
IsTok(toks, i, tok) == i <= Len(toks) /\ toks[i] = tok

RECURSIVE ParseValue(_, _)
RECURSIVE ParseElems(_, _, _)
RECURSIVE ParseMembers(_, _, _)

\* The elements of a list after "[" or ",", up to "]".
ParseElems(toks, i, acc) ==
    LET r == ParseValue(toks, i)
    IN  IF ~r.ok THEN ParseError
        ELSE IF IsTok(toks, r.next, P(","))
             THEN ParseElems(toks, r.next + 1, Append(acc, r.val))
        ELSE IF IsTok(toks, r.next, P("]"))
             THEN Parsed(JArr(Append(acc, r.val)), r.next + 1)
        ELSE ParseError

\* The members of a dict after "{" or ",", up to "}": a repeated key keeps
\* its last value.
ParseMembers(toks, i, acc) ==
    IF ~(i + 1 <= Len(toks) /\ toks[i].k = "str" /\ toks[i + 1] = P(":"))
    THEN ParseError
    ELSE LET r == ParseValue(toks, i + 2)
         IN  IF ~r.ok THEN ParseError
             ELSE IF IsTok(toks, r.next, P(","))
                  THEN ParseMembers(toks, r.next + 1, DictSet(acc, toks[i].s, r.val))
             ELSE IF IsTok(toks, r.next, P("}"))
                  THEN Parsed(DictSet(acc, toks[i].s, r.val), r.next + 1)
             ELSE ParseError

\* One JSON value starting at position i.
ParseValue(toks, i) ==
    IF i > Len(toks) THEN ParseError
    ELSE LET tok == toks[i]
         IN  CASE tok.k = "lit" ->
                    (CASE tok.s = "true" -> Parsed(JBool(TRUE), i + 1)
                       [] tok.s = "false" -> Parsed(JBool(FALSE), i + 1)
                       [] tok.s = "null" -> Parsed(JNull, i + 1)
                       [] OTHER -> ParseError)
               [] tok.k = "num" ->
                    IF tok.cs # <<>> /\ (\A j \in 1..Len(tok.cs) : IsDigit(tok.cs[j]))
                    THEN Parsed(JNum(IF tok.s = "-" THEN -DigitsToNat(tok.cs)
                                                    ELSE DigitsToNat(tok.cs)), i + 1)
                    ELSE ParseError
               [] tok.k = "str" -> Parsed(JStr(tok.s), i + 1)
               [] tok = P("[") ->
                    IF IsTok(toks, i + 1, P("]")) THEN Parsed(JArr(<<>>), i + 2)
                    ELSE ParseElems(toks, i + 1, <<>>)
               [] tok = P("{") ->
                    IF IsTok(toks, i + 1, P("}")) THEN Parsed(JObj(<<>>), i + 2)
                    ELSE ParseMembers(toks, i + 1, JObj(<<>>))
               [] OTHER -> ParseError

\* json.load / json.loads: JSONDecodeError (ok = FALSE) unless the whole text
\* is one JSON value.
json_loads(toks) ==
    LET r == ParseValue(toks, 1)
    IN  IF r.ok /\ r.next = Len(toks) + 1 THEN r ELSE ParseError

(***************************************************************************)
(* The persistence file: missing, present but not openable (open raises    *)
(* IOError), present with bytes that are not UTF-8, or present with text.  *)
(***************************************************************************)
NoFile == [kind |-> "missing", toks |-> <<>>]
UnreadableFile == [kind |-> "unreadable", toks |-> <<>>]
BadUtf8File == [kind |-> "badutf8", toks |-> <<>>]
TextFile(toks) == [kind |-> "text", toks |-> toks]

\* What the open/write of save() can do: succeed, fail at open (the file is
\* left as it was), or fail while writing (open(..., 'w') has truncated the
\* file and only the first half of the text reached it).
IOOutcomes == {"ok", "open_fails", "write_fails"}

\* A task dict as create_task builds it.
Task(id, title, priority, isDone) ==
    JObj(<<Pair("id", JNum(id)), Pair("title", title),
           Pair("priority", priority), Pair("isDone", JBool(isDone))>>)

\* A dict with an int 'id' and a bool 'isDone'.
IsTask(v) ==
    /\ v.t = "obj"
    /\ HasKey(v, "id") /\ Item(v, "id").t = "num"
    /\ HasKey(v, "isDone") /\ Item(v, "isDone").t = "bool"
\* A list of such dicts: what the store means by its collection.
IsCollection(v) == v.t = "arr" /\ \A i \in 1..Len(v.items) : IsTask(v.items[i])
Id(task) == Item(task, "id").n
IsDone(task) == Item(task, "isDone").b

\* TaskManager.load: the tasks it leaves, or the exception that escapes it.
load(f) ==
    IF f.kind = "missing" THEN [raised |-> "", tasks |-> JArr(<<>>)]
    ELSE IF f.kind = "unreadable" THEN [raised |-> "", tasks |-> JArr(<<>>)]
    ELSE IF f.kind = "badutf8"
         THEN [raised |-> "UnicodeDecodeError", tasks |-> JArr(<<>>)]
    ELSE LET r == json_loads(f.toks)
         IN  IF r.ok THEN [raised |-> "", tasks |-> r.val]
             ELSE [raised |-> "", tasks |-> JArr(<<>>)]

\* save opening the file to append ('a') instead of to overwrite ('w').
save_appends(ts, f, io) ==
    LET text == json_dumps(ts)
        old == IF f.kind = "text" THEN f.toks ELSE <<>>
    IN  CASE io = "ok" -> TextFile(old \o text)
          [] io = "open_fails" -> f
          [] OTHER -> TextFile(old \o SubSeq(text, 1, Len(text) \div 2))

\* TaskManager.save: the file after it; an IOError is swallowed.
save(ts, f, io) ==
    LET text == json_dumps(ts)
    IN  CASE io = "ok" -> TextFile(text)
          [] io = "open_fails" -> f
          [] OTHER -> TextFile(SubSeq(text, 1, Len(text) \div 2))

\* The first item of the list that `task['id']` fails on, 0 if none.
FirstBadItem(items) ==
    IF \E i \in 1..Len(items) : ~(items[i].t = "obj" /\ HasKey(items[i], "id"))
    THEN CHOOSE i \in 1..Len(items) :
            /\ ~(items[i].t = "obj" /\ HasKey(items[i], "id"))
            /\ \A j \in 1..(i - 1) : items[j].t = "obj" /\ HasKey(items[j], "id")
    ELSE 0

\* The exception `for task in self.tasks: task['id']` raises, "" if none.
ScanError(ts) ==
    CASE ts.t \in {"null", "bool", "num"} -> "TypeError"
      [] ts.t = "str" -> IF ts.s = "" THEN "" ELSE "TypeError"
      [] ts.t = "obj" -> IF ts.items = <<>> THEN "" ELSE "TypeError"
      [] OTHER ->
            LET i == FirstBadItem(ts.items)
            IN  IF i = 0 THEN ""
                ELSE IF ts.items[i].t = "obj" THEN "KeyError" ELSE "TypeError"

MaxOf(S) == CHOOSE x \in S : \A y \in S : y <= x

\* new_id with the "+ 1" forgotten: the largest id present, 0 when empty.
new_id_without_increment(ts) ==
    IF ts.items = <<>> THEN 0
    ELSE MaxOf({Id(ts.items[i]) : i \in 1..Len(ts.items)})

\* new_id counting the tasks instead of taking the largest id.
new_id_counts_tasks(ts) == Len(ts.items) + 1

\* max((task['id'] for task in self.tasks), default=0) + 1
new_id(ts) ==
    IF ts.items = <<>> THEN 0 + 1
    ELSE MaxOf({Id(ts.items[i]) : i \in 1..Len(ts.items)}) + 1

\* What a store call returns: the exception that escaped it ("" if none),
\* the tasks and the file after it, whether it called save(), its result.
Outcome(raised, ts, f, saved, ret) ==
    [raised |-> raised, tasks |-> ts, file |-> f, saved |-> saved, ret |-> ret]

\* create_task calling save() before the append.
create_task_saves_first(ts, f, title, priority, io) ==
    LET task == Task(new_id(ts), title, priority, FALSE)
    IN  IF ~IsCollection(ts) THEN Outcome("TypeError", ts, f, FALSE, JNull)
        ELSE Outcome("", JArr(Append(ts.items, task)), save(ts, f, io), TRUE, task)

\* create_task inserting the new task at the front of the list.
create_task_prepends(ts, f, title, priority, io) ==
    LET task == Task(new_id(ts), title, priority, FALSE)
        inserted == JArr(<<task>> \o ts.items)
    IN  IF ~IsCollection(ts) THEN Outcome("TypeError", ts, f, FALSE, JNull)
        ELSE Outcome("", inserted, save(inserted, f, io), TRUE, task)

\* TaskManager.create_task
create_task(ts, f, title, priority, io) ==
    IF ScanError(ts) # "" THEN Outcome(ScanError(ts), ts, f, FALSE, JNull)
    ELSE IF ts.t # "arr" THEN Outcome("AttributeError", ts, f, FALSE, JNull)
    ELSE IF \E i \in 1..Len(ts.items) : Item(ts.items[i], "id").t # "num"
         THEN Outcome("TypeError", ts, f, FALSE, JNull)
    ELSE LET task == Task(new_id(ts), title, priority, FALSE)
             appended == JArr(Append(ts.items, task))
         IN  Outcome("", appended, save(appended, f, io), TRUE, task)

\* The first task whose id is task_id, 0 if none.
FirstMatch(items, task_id) ==
    IF \E i \in 1..Len(items) : Item(items[i], "id") = JNum(task_id)
    THEN CHOOSE i \in 1..Len(items) :
            /\ Item(items[i], "id") = JNum(task_id)
            /\ \A j \in 1..(i - 1) : Item(items[j], "id") # JNum(task_id)
    ELSE 0

\* complete_task flipping the flag instead of setting it.
complete_task_toggles(ts, f, task_id, io) ==
    LET m == IF IsCollection(ts) THEN FirstMatch(ts.items, task_id) ELSE 0
        flipped == JArr([ts.items EXCEPT
                           ![m] = DictSet(ts.items[m], "isDone",
                                          JBool(~IsDone(ts.items[m])))])
    IN  IF m = 0 THEN Outcome("", ts, f, FALSE, JBool(FALSE))
        ELSE Outcome("", flipped, save(flipped, f, io), TRUE, JBool(TRUE))

\* complete_task saving whenever the task is found, changed or not.
complete_task_always_saves(ts, f, task_id, io) ==
    LET m == IF IsCollection(ts) THEN FirstMatch(ts.items, task_id) ELSE 0
        done == JArr([ts.items EXCEPT
                        ![m] = DictSet(ts.items[m], "isDone", JBool(TRUE))])
    IN  IF m = 0 THEN Outcome("", ts, f, FALSE, JBool(FALSE))
        ELSE Outcome("", done, save(done, f, io), TRUE, JBool(TRUE))

\* complete_task answering True whether or not the id was found.
complete_task_true_on_miss(ts, f, task_id, io) ==
    LET m == IF IsCollection(ts) THEN FirstMatch(ts.items, task_id) ELSE 0
        done == JArr([ts.items EXCEPT
                        ![m] = DictSet(ts.items[m], "isDone", JBool(TRUE))])
    IN  IF m = 0 THEN Outcome("", ts, f, FALSE, JBool(TRUE))
        ELSE IF IsDone(ts.items[m]) THEN Outcome("", ts, f, FALSE, JBool(TRUE))
        ELSE Outcome("", done, save(done, f, io), TRUE, JBool(TRUE))

\* complete_task calling save() also when no task has the id.
complete_task_saves_on_miss(ts, f, task_id, io) ==
    LET m == IF IsCollection(ts) THEN FirstMatch(ts.items, task_id) ELSE 0
        done == JArr([ts.items EXCEPT
                        ![m] = DictSet(ts.items[m], "isDone", JBool(TRUE))])
    IN  IF ~IsCollection(ts) THEN Outcome("", ts, f, FALSE, JBool(FALSE))
        ELSE IF m = 0 THEN Outcome("", ts, save(ts, f, io), TRUE, JBool(FALSE))
        ELSE IF IsDone(ts.items[m]) THEN Outcome("", ts, f, FALSE, JBool(TRUE))
        ELSE Outcome("", done, save(done, f, io), TRUE, JBool(TRUE))

\* TaskManager.complete_task
complete_task(ts, f, task_id, io) ==
    LET bad == IF ts.t = "arr" THEN FirstBadItem(ts.items) ELSE 0
        scanned == IF bad = 0 THEN ts.items ELSE SubSeq(ts.items, 1, bad - 1)
        m == IF ts.t = "arr" THEN FirstMatch(scanned, task_id) ELSE 0
    IN  IF m = 0
        THEN (IF ScanError(ts) # "" THEN Outcome(ScanError(ts), ts, f, FALSE, JNull)
              ELSE Outcome("", ts, f, FALSE, JBool(FALSE)))
        ELSE IF ~HasKey(ts.items[m], "isDone")
             THEN Outcome("KeyError", ts, f, FALSE, JNull)
        ELSE IF Truthy(Item(ts.items[m], "isDone"))
             THEN Outcome("", ts, f, FALSE, JBool(TRUE))
        ELSE LET done == JArr([ts.items EXCEPT
                                 ![m] = DictSet(ts.items[m], "isDone", JBool(TRUE))])
             IN  Outcome("", done, save(done, f, io), TRUE, JBool(TRUE))

\* TaskManager.get_all
get_all(ts) == ts

(***************************************************************************)
(* TaskHandler. A path is the sequence of its characters; a request body   *)
(* is its bytes: JSON text, or bytes that are not UTF-8.                   *)
(***************************************************************************)
TasksPath == <<"/", "t", "a", "s", "k", "s">>
TasksSeg == <<"t", "a", "s", "k", "s">>
CompleteSeg == <<"c", "o", "m", "p", "l", "e", "t", "e">>
Body(toks) == [enc |-> "utf8", toks |-> toks]
BadUtf8Body == [enc |-> "bad", toks |-> <<>>]

RECURSIVE Strip(_)
\* path.strip('/')
Strip(cs) ==
    IF cs # <<>> /\ cs[1] = "/" THEN Strip(Tail(cs))
    ELSE IF cs # <<>> /\ cs[Len(cs)] = "/" THEN Strip(SubSeq(cs, 1, Len(cs) - 1))
    ELSE cs

RECURSIVE Split(_, _, _)
\* s.split('/'): cur is the part being read, acc the parts read
Split(cs, cur, acc) ==
    IF cs = <<>> THEN Append(acc, cur)
    ELSE IF cs[1] = "/" THEN Split(Tail(cs), <<>>, Append(acc, cur))
    ELSE Split(Tail(cs), Append(cur, cs[1]), acc)

IsDigitChar(c) == IsDigit(c)
\* int(s) for ASCII text: an optional sign, then digits, single underscores
\* allowed between digits; ok = FALSE is ValueError.
PyInt(cs) ==
    LET signed == cs # <<>> /\ cs[1] \in {"+", "-"}
        body == IF signed THEN Tail(cs) ELSE cs
        valid == /\ body # <<>>
                 /\ \A j \in 1..Len(body) :
                       \/ IsDigit(body[j])
                       \/ /\ body[j] = "_"
                          /\ 1 < j /\ j < Len(body)
                          /\ IsDigit(body[j - 1]) /\ IsDigit(body[j + 1])
        n == DigitsToNat(SelectSeq(body, IsDigitChar))
    IN  IF ~valid THEN [ok |-> FALSE, n |-> 0]
        ELSE [ok |-> TRUE, n |-> IF signed /\ cs[1] = "-" THEN -n ELSE n]

\* What the client gets: a status with a plain-text or a JSON body, or, when
\* an exception escapes the handler, nothing (status 0, raised names it).
Response(status, ctype, text, json) ==
    [status |-> status, raised |-> "", ctype |-> ctype, text |-> text, json |-> json]
Unhandled(exc) ==
    [status |-> 0, raised |-> exc, ctype |-> "", text |-> "", json |-> <<>>]
\* send_response(code); end_headers()
send_response(code) == Response(code, "", "", <<>>)
\* TaskHandler._send_json_response
send_json_response(code, data) == Response(code, "application/json", "", json_dumps(data))
\* TaskHandler._send_error
send_error(code, message) == Response(code, "", message, <<>>)

\* What a handler did: its response, the store call it made ("" if none) and
\* that call's outcome.
Handled(resp, called, out) == [resp |-> resp, called |-> called, out |-> out]
NoCall(ts, f) == Outcome("", ts, f, FALSE, JNull)

\* TaskHandler.do_GET
do_GET(ts, f, path) ==
    IF path = TasksPath
    THEN Handled(send_json_response(200, get_all(ts)), "get_all",
                 Outcome("", ts, f, FALSE, get_all(ts)))
    ELSE Handled(send_response(404), "", NoCall(ts, f))

\* TaskHandler._handle_create_task
handle_create_task(ts, f, body, io) ==
    IF body.enc = "bad"
    THEN Handled(Unhandled("UnicodeDecodeError"), "", NoCall(ts, f))
    ELSE LET r == json_loads(body.toks)
             data == r.val
             title == Get(data, "title")
             priority == Get(data, "priority")
             out == create_task(ts, f, title, priority, io)
         IN  IF ~r.ok
             THEN Handled(send_error(400, "Invalid JSON"), "", NoCall(ts, f))
             ELSE IF data.t # "obj"
             THEN Handled(Unhandled("AttributeError"), "", NoCall(ts, f))
             ELSE IF ~Truthy(title) \/ ~Truthy(priority)
             THEN Handled(send_error(400, "Missing title or priority"), "",
                          NoCall(ts, f))
             ELSE IF priority \notin {JStr("low"), JStr("normal"), JStr("high")}
             THEN Handled(send_error(400, "Priority must be low, normal, or high"),
                          "", NoCall(ts, f))
             ELSE IF out.raised # ""
             THEN Handled(Unhandled(out.raised), "create_task", out)
             ELSE Handled(send_json_response(201, out.ret), "create_task", out)

\* _handle_complete_task answering 400 when the id is no integer.
handle_complete_task_400_on_bad_id(ts, f, task_id_str, io) ==
    LET task_id == PyInt(task_id_str)
        out == complete_task(ts, f, task_id.n, io)
    IN  IF ~task_id.ok THEN Handled(send_response(400), "", NoCall(ts, f))
        ELSE IF out.raised # "" THEN Handled(Unhandled(out.raised), "complete_task", out)
        ELSE IF out.ret = JBool(TRUE)
             THEN Handled(send_response(200), "complete_task", out)
        ELSE Handled(send_response(404), "complete_task", out)

\* TaskHandler._handle_complete_task
handle_complete_task(ts, f, task_id_str, io) ==
    LET task_id == PyInt(task_id_str)
        out == complete_task(ts, f, task_id.n, io)
    IN  IF ~task_id.ok THEN Handled(send_response(404), "", NoCall(ts, f))
        ELSE IF out.raised # "" THEN Handled(Unhandled(out.raised), "complete_task", out)
        ELSE IF out.ret = JBool(TRUE)
             THEN Handled(send_response(200), "complete_task", out)
        ELSE Handled(send_response(404), "complete_task", out)

\* TaskHandler.do_POST
do_POST(ts, f, path, body, io) ==
    LET parts == Split(Strip(path), <<>>, <<>>)
    IN  IF parts = <<TasksSeg>> THEN handle_create_task(ts, f, body, io)
        ELSE IF Len(parts) = 3 /\ parts[1] = TasksSeg /\ parts[3] = CompleteSeg
             THEN handle_complete_task(ts, f, parts[2], io)
        ELSE Handled(send_response(404), "", NoCall(ts, f))

\* A request whose method TaskHandler defines no do_<METHOD> for: the base
\* class BaseHTTPRequestHandler answers 501 with an error page and calls
\* nothing of TaskHandler; the page is left out of the answer to a HEAD.
unsupported_method(ts, f, method) ==
    Handled(Response(501, "text/html;charset=utf-8",
                     IF method = "HEAD" THEN "" ELSE "Unsupported method", <<>>),
            "", NoCall(ts, f))

(***************************************************************************)
(* The state of the process.                                               *)
(*   tasks    TaskManager.tasks                                            *)
(*   file     the persistence file TaskManager.filename names              *)
(*   pc       "start" before TaskManager() runs, "serving" after it,       *)
(*            "crashed" when an exception escaped it                       *)
(*   loaded   what load() left in tasks at startup                         *)
(*   call     the last call of a TaskManager method                        *)
(*   http     the last request TaskHandler answered, with its response     *)
(*   created  the tasks create_task returned, in call order                *)
(*   io_failures  the calls of save() whose I/O failed so far              *)
(*   threads  for each thread that runs create_task line by line: where it *)
(*            is in it and its local new_task and file buffer              *)
(***************************************************************************)
VARIABLES tasks, file, pc, loaded, call, http, created, io_failures, threads
vars == <<tasks, file, pc, loaded, call, http, created, io_failures, threads>>

Call(name, title, priority, task_id, out, io) ==
    [name |-> name, title |-> title, priority |-> priority,
     task_id |-> task_id, raised |-> out.raised, saved |-> out.saved,
     io |-> io, ret |-> out.ret]
NoCallYet ==
    [name |-> "", title |-> JNull, priority |-> JNull, task_id |-> 0,
     raised |-> "", saved |-> FALSE, io |-> "none", ret |-> JNull]
Http(method, path, body, resp) ==
    [method |-> method, path |-> path, body |-> body, resp |-> resp]
NoRequest == Http("", <<>>, Body(<<>>), send_response(0))

\* The threads that can be inside create_task at once when run() is given a
\* threading server class, and what each creates.
Threads == {"t1", "t2"}
ThreadTitle(t) == IF t = "t1" THEN JStr("a") ELSE JStr("b")
ThreadPriority(t) == IF t = "t1" THEN JStr("low") ELSE JStr("high")
\* A thread: pc is "out" outside create_task, "append" when it has built
\* new_task, "open" when it has appended it, "close" when save() has dumped
\* the list into the buffer of the file it opened, "raised" when an exception
\* ended it; seen is the length of the list it computed new_id from; calls
\* counts its create_task calls that returned; raced tells that another
\* thread was inside create_task during one of its calls.
Thread(tpc, task, text, seen, calls, raced) ==
    [pc |-> tpc, task |-> task, text |-> text, seen |-> seen,
     calls |-> calls, raced |-> raced]
NoThread == Thread("out", JNull, <<>>, 0, 0, FALSE)

\* The inputs the model draws from.
ApiTitles == {JStr("a"), JNum(5)}
ApiPriorities == {JStr("urgent")}
UnknownIds == {999}
\* Files a store wrote, or that were edited by hand: lists of tasks, among
\* them one with a gap in its ids and the larger id first, and one with the
\* same id twice.
FileCollections ==
    {<<>>,
     <<Task(1, JStr("a"), JStr("low"), FALSE)>>,
     <<Task(12, JStr("b"), JStr("high"), TRUE), Task(1, JStr("a"), JStr("low"), TRUE)>>,
     <<Task(1, JStr("a"), JStr("low"), FALSE), Task(1, JStr("b"), JStr("high"), TRUE)>>}
CollectionFiles == {TextFile(json_dumps(JArr(q))) : q \in FileCollections}
\* Files whose text is not JSON: a list cut short.
MalformedFiles == {TextFile(<<P("["), Garbage>>)}
\* Files whose text is JSON but no list of tasks.
OtherJsonFiles == {TextFile(json_dumps(JNum(42))), TextFile(json_dumps(JArr(<<JNum(7)>>)))}
InitialFiles ==
    {NoFile, UnreadableFile, BadUtf8File} \cup CollectionFiles
        \cup MalformedFiles \cup OtherJsonFiles

PresentIds(ts) ==
    IF IsCollection(ts) THEN {Id(ts.items[i]) : i \in 1..Len(ts.items)} ELSE {}
\* create_task is called while the run is short of the bound.
CanGrow == Len(created) < MaxCreates

CreateBody(pairs) == Body(json_dumps(JObj(pairs)))
GoodBodies ==
    {CreateBody(<<Pair("title", JStr("a")), Pair("priority", JStr("low"))>>),
     CreateBody(<<Pair("title", JNum(5)), Pair("priority", JStr("low"))>>)}
RejectedBodies ==
    {Body(<<>>),
     Body(<<P("{"), StrTok("title"), P(":"), StrTok("a"), P(","),
            StrTok("priority"), P(":"), StrTok("low")>>),
     BadUtf8Body,
     Body(json_dumps(JArr(<<>>))), Body(json_dumps(JNull)),
     CreateBody(<<Pair("title", JStr("a"))>>),
     CreateBody(<<Pair("priority", JStr("low"))>>),
     CreateBody(<<Pair("title", JStr("")), Pair("priority", JStr("urgent"))>>),
     CreateBody(<<Pair("title", JStr("a")), Pair("priority", JStr("urgent"))>>),
     CreateBody(<<Pair("title", JStr("a")), Pair("priority", JStr(""))>>)}
Bodies == GoodBodies \cup RejectedBodies

GetPaths == {TasksPath, Append(TasksPath, "/")}
CompletePath(seg) == TasksPath \o <<"/">> \o seg \o <<"/">> \o CompleteSeg
IdSegments(ts) ==
    {NatToDigits(n) : n \in PresentIds(ts) \cup UnknownIds}
        \cup {<<"a", "b", "c">>, <<"+", "1">>}
\* POST requests that do_POST routes to _handle_create_task.
CreateRequests ==
    {<<TasksPath, body>> : body \in Bodies}
        \cup {<<Append(TasksPath, "/"),
                  CreateBody(<<Pair("title", JStr("a")), Pair("priority", JStr("low"))>>)>>}
OtherPostPaths == {<<"/">>, TasksPath \o <<"/", "1">>}
\* Methods TaskHandler has no do_<METHOD> for.
OtherMethods == {"PUT", "DELETE", "PATCH", "HEAD"}

Init ==
    /\ file \in InitialFiles
    /\ tasks = JArr(<<>>)
    /\ pc = "start"
    /\ loaded = JArr(<<>>)
    /\ call = NoCallYet
    /\ http = NoRequest
    /\ created = <<>>
    /\ io_failures = 0
    /\ threads = [t \in Threads |-> NoThread]

\* TaskManager.__init__, run once when the TaskHandler class is defined.
Startup ==
    /\ pc = "start"
    /\ LET r == load(file)
       IN  /\ tasks' = r.tasks
           /\ loaded' = r.tasks
           /\ pc' = IF r.raised = "" THEN "serving" ELSE "crashed"
           /\ call' = Call("load", JNull, JNull, 0,
                           Outcome(r.raised, r.tasks, file, FALSE, JNull), "none")
    /\ UNCHANGED <<file, http, created, io_failures, threads>>

\* The process is between two calls: the last call has returned and the last
\* response has been sent.
Idle == pc = "serving" /\ call = NoCallYet /\ http = NoRequest

\* The call or the request is over: what is left of it is the state of the
\* store, and the next one starts from there.
AwaitNext ==
    /\ pc = "serving" /\ ~Idle
    /\ call' = NoCallYet
    /\ http' = NoRequest
    /\ UNCHANGED <<tasks, file, pc, loaded, created, io_failures, threads>>

\* The outcome of save()'s I/O is drawn only in a call that reaches save().
IOFor(out) ==
    IF ~out.saved THEN {"none"}
    ELSE IF io_failures < MaxIOFailures THEN IOOutcomes
    ELSE {"ok"}

\* What a store call leaves: the collection, the file, the call's record and,
\* for a create_task that returned, the task it returned.
Apply(name, title, priority, task_id, out, io) ==
    /\ tasks' = out.tasks
    /\ file' = out.file
    /\ call' = Call(name, title, priority, task_id, out, io)
    /\ created' = IF name = "create_task" /\ out.raised = ""
                  THEN Append(created, out.ret)
                  ELSE created
    /\ io_failures' = IF out.saved /\ io # "ok" THEN io_failures + 1 ELSE io_failures
    /\ UNCHANGED <<pc, loaded, threads>>

\* A direct call of TaskManager.create_task.
CreateTask ==
    /\ Idle /\ CanGrow
    /\ \E title \in ApiTitles, priority \in ApiPriorities :
       \E io \in IOFor(create_task(tasks, file, title, priority, "ok")) :
          Apply("create_task", title, priority, 0,
                create_task(tasks, file, title, priority, io), io)
    /\ http' = NoRequest

\* A direct call of TaskManager.complete_task.
CompleteTask ==
    /\ Idle
    /\ \E task_id \in PresentIds(tasks) \cup UnknownIds :
       \E io \in IOFor(complete_task(tasks, file, task_id, "ok")) :
          Apply("complete_task", JNull, JNull, task_id,
                complete_task(tasks, file, task_id, io), io)
    /\ http' = NoRequest

\* A direct call of TaskManager.get_all.
GetAll ==
    /\ Idle
    /\ Apply("get_all", JNull, JNull, 0,
             Outcome("", tasks, file, FALSE, get_all(tasks)), "none")
    /\ http' = NoRequest

\* What a handled request leaves.
Answer(method, path, body, h, io) ==
    /\ http' = Http(method, path, body, h.resp)
    /\ IF h.called = ""
       THEN /\ call' = NoCallYet
            /\ UNCHANGED <<tasks, file, created, pc, loaded, io_failures, threads>>
       ELSE LET data == json_loads(body.toks).val
            IN  Apply(h.called,
                      IF h.called = "create_task" THEN Get(data, "title") ELSE JNull,
                      IF h.called = "create_task" THEN Get(data, "priority") ELSE JNull,
                      IF h.called = "complete_task"
                      THEN PyInt(Split(Strip(path), <<>>, <<>>)[2]).n ELSE 0,
                      h.out, io)

\* A GET request.
DoGET ==
    /\ Idle
    /\ \E path \in GetPaths :
          Answer("GET", path, Body(<<>>), do_GET(tasks, file, path), "none")

\* A POST request to the create route.
DoPOSTCreate ==
    /\ Idle /\ CanGrow
    /\ \E req \in CreateRequests :
       \E io \in IOFor(do_POST(tasks, file, req[1], req[2], "ok").out) :
          Answer("POST", req[1], req[2], do_POST(tasks, file, req[1], req[2], io), io)

\* A POST request to a complete route or to any other path.
DoPOSTOther ==
    /\ Idle
    /\ \E path \in {CompletePath(seg) : seg \in IdSegments(tasks)} \cup OtherPostPaths :
       \E io \in IOFor(do_POST(tasks, file, path, Body(<<>>), "ok").out) :
          Answer("POST", path, Body(<<>>), do_POST(tasks, file, path, Body(<<>>), io), io)

\* A request with a method other than GET and POST.
DoOtherMethod ==
    /\ Idle
    /\ \E method \in OtherMethods :
          Answer(method, TasksPath, Body(<<>>), unsupported_method(tasks, file, method), "none")

\* The server: the store is reached through TaskHandler only.
Next ==
    \/ Startup
    \/ AwaitNext
    \/ DoGET
    \/ DoPOSTCreate
    \/ DoPOSTOther
    \/ DoOtherMethod

Spec == Init /\ [][Next]_vars

\* The store alone: TaskManager's methods called directly, one at a time,
\* with any arguments.
NextStore ==
    \/ Startup
    \/ AwaitNext
    \/ CreateTask
    \/ CompleteTask
    \/ GetAll

SpecStore == Init /\ [][NextStore]_vars

\* The process is stopped between two calls and started again: a new
\* TaskManager is built on the file as the old process left it.
Restart ==
    /\ Idle
    /\ LET r == load(file)
       IN  /\ tasks' = r.tasks
           /\ loaded' = r.tasks
           /\ pc' = IF r.raised = "" THEN "serving" ELSE "crashed"
           /\ call' = Call("load", JNull, JNull, 0,
                           Outcome(r.raised, r.tasks, file, FALSE, JNull), "none")
    /\ UNCHANGED <<file, http, created, io_failures, threads>>

\* The store over several runs of the process on the same file.
NextRestart ==
    \/ Startup
    \/ AwaitNext
    \/ CreateTask
    \/ CompleteTask
    \/ Restart

SpecRestart == Init /\ [][NextRestart]_vars

\* self.tasks.append(new_task), with the id taken anew at the append.
append_with_fresh_id(ts, task) ==
    JArr(Append(ts.items, DictSet(task, "id", JNum(new_id(ts)))))

\* self.tasks.append(new_task)
list_append(ts, task) == JArr(Append(ts.items, task))

\* What closing a file opened with 'w' leaves: the buffered text is written
\* from offset 0 over whatever the file holds by then.
Overlay(text, f) ==
    LET old == IF f.kind = "text" THEN f.toks ELSE <<>>
    IN  TextFile(text \o SubSeq(old, Len(text) + 1, Len(old)))

\* The threads inside create_task.
Inside == {u \in Threads : threads[u].pc \in {"append", "open", "close"}}

\* create_task, lines 40-46: a thread computes new_id from the list as it is
\* now and builds new_task (or the generator of line 40 raises).
ThreadNewTask ==
    /\ pc = "serving"
    /\ \E t \in Threads :
          /\ threads[t].pc = "out" /\ threads[t].calls < MaxThreadCalls
          /\ LET raised == create_task(tasks, file, ThreadTitle(t),
                                       ThreadPriority(t), "ok").raised
                 task == Task(new_id(tasks), ThreadTitle(t), ThreadPriority(t), FALSE)
             IN  threads' =
                   [u \in Threads |->
                      IF u = t
                      THEN (IF raised # ""
                            THEN [threads[t] EXCEPT !.pc = "raised"]
                            ELSE [threads[t] EXCEPT
                                    !.pc = "append", !.task = task,
                                    !.seen = Len(tasks.items),
                                    !.raced = threads[t].raced \/ Inside # {}])
                      ELSE IF u \in Inside /\ raised = ""
                           THEN [threads[u] EXCEPT !.raced = TRUE]
                           ELSE threads[u]]
    /\ UNCHANGED <<tasks, file, pc, loaded, call, http, created, io_failures>>

\* create_task, line 47.
ThreadAppend ==
    /\ \E t \in Threads :
          /\ threads[t].pc = "append"
          /\ tasks' = list_append(tasks, threads[t].task)
          /\ threads' = [threads EXCEPT ![t].pc = "open"]
    /\ UNCHANGED <<file, pc, loaded, call, http, created, io_failures>>

\* save, lines 26-28: open(..., 'w') truncates the file and json.dump puts
\* the text of the list as it is now into the buffer of the file object.
ThreadOpen ==
    /\ \E t \in Threads :
          /\ threads[t].pc = "open"
          /\ file' = TextFile(<<>>)
          /\ threads' = [threads EXCEPT ![t].pc = "close",
                                        ![t].text = json_dumps(tasks)]
    /\ UNCHANGED <<tasks, pc, loaded, call, http, created, io_failures>>

\* save, end of the with block, and create_task, line 49: the buffer reaches
\* the file and new_task is returned.
ThreadClose ==
    /\ \E t \in Threads :
          /\ threads[t].pc = "close"
          /\ file' = Overlay(threads[t].text, file)
          /\ created' = Append(created, threads[t].task)
          /\ threads' = [threads EXCEPT ![t].pc = "out", ![t].text = <<>>,
                                        ![t].calls = threads[t].calls + 1]
    /\ UNCHANGED <<tasks, pc, loaded, call, http, io_failures>>

\* The store under a threading server: create_task runs in two threads whose
\* lines interleave freely.
NextThreads ==
    \/ Startup
    \/ ThreadNewTask
    \/ ThreadAppend
    \/ ThreadOpen
    \/ ThreadClose

SpecThreads == Init /\ [][NextThreads]_vars

(***************************************************************************)
(* Properties.                                                             *)
(***************************************************************************)
Ids(ts) == [i \in 1..Len(ts.items) |-> Id(ts.items[i])]
UniqueIds(ts) ==
    IsCollection(ts) =>
        \A i, j \in 1..Len(ts.items) : i # j => Id(ts.items[i]) # Id(ts.items[j])
\* The step is a call of complete_task(task_id) on a list of tasks.
CompleteStep == call'.name = "complete_task" /\ IsCollection(tasks)
\* Task i of the list is the same but for its isDone flag.
SameButDone(before, after, i) ==
    /\ Item(after.items[i], "id") = Item(before.items[i], "id")
    /\ Item(after.items[i], "title") = Item(before.items[i], "title")
    /\ Item(after.items[i], "priority") = Item(before.items[i], "priority")

\* C1: in a store that started empty, the k-th task create_task returned has
\* id k, whatever the titles and priorities and whatever complete_task calls
\* came in between.
C1_IdsCountFromOne ==
    loaded = JArr(<<>>) => \A k \in 1..Len(created) : Id(created[k]) = k
\* Two creates with a complete_task in between, from an empty store.
C1_Witness ==
    /\ loaded = JArr(<<>>) /\ pc = "serving"
    /\ Len(created) = 2 /\ call.name = "create_task"
    /\ IsDone(tasks.items[1])

\* C2 as stated: in every reachable state no two tasks of the collection have
\* the same id.
C2_UniqueIdsAlways == UniqueIds(tasks)
\* C2 amended: when the list load() left at startup has no two tasks with the
\* same id, no reachable state has.
C2_UniqueIdsIfLoadedUnique == UniqueIds(loaded) => UniqueIds(tasks)
\* A create_task after a file with a gap in its ids was loaded.
C2_Witness ==
    /\ IsCollection(loaded) /\ Len(loaded.items) = 2 /\ UniqueIds(loaded)
    /\ Ids(loaded) = <<12, 1>>
    /\ Len(created) = 2 /\ Len(tasks.items) = 4

\* C3: no step of the store turns a task's isDone from true to false, nor
\* removes or moves the task.
C3_DoneStaysDone ==
    [][(pc = "serving" /\ IsCollection(tasks)) =>
          /\ IsCollection(tasks')
          /\ Len(tasks'.items) >= Len(tasks.items)
          /\ \A i \in 1..Len(tasks.items) :
                /\ SameButDone(tasks, tasks', i)
                /\ IsDone(tasks.items[i]) => IsDone(tasks'.items[i])]_vars
\* A task was completed, and a create_task and a complete_task of another
\* task followed.
C3_Witness ==
    /\ IsCollection(tasks) /\ Len(tasks.items) = 2
    /\ IsDone(tasks.items[1]) /\ IsDone(tasks.items[2])
    /\ Len(created) = 2 /\ call.name = "complete_task" /\ call.saved

\* C4: complete_task(id) on a present task that is not done sets its flag,
\* calls save() once (the file then holds the new collection unless the I/O
\* failed) and returns True; on a present task that is done it returns True,
\* changes neither the collection nor the file and does not call save().
C4_CompleteIdempotent ==
    [][(CompleteStep /\ call'.task_id \in PresentIds(tasks)) =>
          LET m == FirstMatch(tasks.items, call'.task_id)
          IN  /\ call'.raised = "" /\ call'.ret = JBool(TRUE)
              /\ IF ~IsDone(tasks.items[m])
                 THEN /\ Len(tasks'.items) = Len(tasks.items)
                      /\ IsDone(tasks'.items[m])
                      /\ SameButDone(tasks, tasks', m)
                      /\ \A i \in 1..Len(tasks.items) :
                            i # m => tasks'.items[i] = tasks.items[i]
                      /\ call'.saved
                      /\ call'.io = "ok" => file' = TextFile(json_dumps(tasks'))
                 ELSE tasks' = tasks /\ file' = file /\ ~call'.saved]_vars
\* complete_task was called on a task that an earlier call had completed.
C4_Witness ==
    /\ call.name = "complete_task" /\ call.ret = JBool(TRUE) /\ ~call.saved
    /\ Len(created) >= 1 /\ loaded = JArr(<<>>)

\* C5: complete_task(id) with an id no task of the collection has returns
\* False, changes neither the collection nor the file and does not call save().
C5_CompleteUnknownId ==
    [][(CompleteStep /\ call'.task_id \notin PresentIds(tasks)) =>
          /\ call'.raised = "" /\ call'.ret = JBool(FALSE)
          /\ tasks' = tasks /\ file' = file /\ ~call'.saved]_vars
\* complete_task of an unknown id was called on a non-empty collection.
C5_Witness ==
    /\ call.name = "complete_task" /\ call.ret = JBool(FALSE)
    /\ IsCollection(tasks) /\ Len(tasks.items) >= 1
    /\ call.task_id \notin PresentIds(tasks)

\* C6: when a create_task has returned, or a complete_task has changed a
\* flag, save() was called in that same call, and unless its I/O failed the
\* file holds the text of exactly the collection now in memory.
C6_FileMirrorsMemory ==
    [][(\/ call'.name = "create_task" /\ call'.raised = ""
        \/ call'.name = "complete_task" /\ tasks' # tasks) =>
          /\ call'.saved
          /\ call'.io = "ok" => file' = TextFile(json_dumps(tasks'))]_vars
\* A save() succeeded after an earlier one had failed.
C6_Witness ==
    /\ io_failures = 1 /\ call.saved /\ call.io = "ok"
    /\ call.name = "complete_task" /\ Len(created) = 2
    /\ file = TextFile(json_dumps(tasks))

\* C7: for every collection the store holds, load() of the file a successful
\* save() wrote yields that collection again.
C7_SaveLoadRoundTrip ==
    pc = "serving" => load(save(tasks, file, "ok")) = [raised |-> "", tasks |-> tasks]
\* The store holds four tasks, done and not done, with a two-digit id and a
\* title that is a number, and its last save() wrote the file.
C7_Witness ==
    /\ IsCollection(tasks) /\ Len(tasks.items) = 4
    /\ Ids(tasks) = <<12, 1, 13, 14>>
    /\ \E i \in 1..4 : ~IsDone(tasks.items[i])
    /\ \E i \in 1..4 : Item(tasks.items[i], "title") = JNum(5)
    /\ call.saved /\ call.io = "ok" /\ load(file).tasks = tasks

\* Text that json.load reads as a list of tasks.
HoldsCollection(f) ==
    f.kind = "text" /\ json_loads(f.toks).ok /\ IsCollection(json_loads(f.toks).val)
\* C8: load() of a file that is missing, unreadable or holds anything but a
\* serialized task collection ends normally and leaves tasks = [].
C8_BadFileLoadsEmpty ==
    (call.name = "load" /\ ~HoldsCollection(file)) =>
        pc = "serving" /\ call.raised = "" /\ tasks = JArr(<<>>)

\* C9: in a store that started empty the list holds exactly the tasks
\* create_task returned, in call order, whatever complete_task did in between;
\* get_all returns that list and GET /tasks answers 200 with its JSON text.
C9_ListInCreationOrder ==
    (loaded = JArr(<<>>) /\ pc = "serving") =>
        /\ tasks.t = "arr" /\ Len(tasks.items) = Len(created)
        /\ \A i \in 1..Len(created) : SameButDone(JArr(created), tasks, i)
        /\ call.name = "get_all" =>
              /\ call.ret = tasks
              /\ http.method = "GET" =>
                    /\ http.resp.status = 200
                    /\ http.resp.ctype = "application/json"
                    /\ json_loads(http.resp.json).ok
                    /\ json_loads(http.resp.json).val = tasks
\* GET /tasks after two creates and a complete of the first task.
C9_Witness ==
    /\ loaded = JArr(<<>>) /\ Len(created) = 2
    /\ call.name = "get_all" /\ http.method = "GET" /\ http.resp.status = 200
    /\ IsDone(tasks.items[1]) /\ ~IsDone(tasks.items[2])

\* C10: POST /tasks applies its checks in order and the first that fails
\* decides the answer: a body that is no JSON gets 400 Invalid JSON; else a
\* missing or empty title or a missing priority gets 400 Missing title or
\* priority; else a priority outside low, normal, high gets 400 Priority must
\* be low, normal, or high; else create_task is called and 201 returned.
C10_ValidationOrder ==
    (http.method = "POST" /\ Split(Strip(http.path), <<>>, <<>>) = <<TasksSeg>>) =>
        LET r == json_loads(http.body.toks)
            parseable == http.body.enc = "utf8" /\ r.ok
            title == IF r.val.t = "obj" THEN Get(r.val, "title") ELSE JNull
            priority == IF r.val.t = "obj" THEN Get(r.val, "priority") ELSE JNull
        IN  IF ~parseable
            THEN http.resp = send_error(400, "Invalid JSON") /\ call.name = ""
            ELSE IF title \in {JNull, JStr("")} \/ priority = JNull
            THEN http.resp = send_error(400, "Missing title or priority")
                 /\ call.name = ""
            ELSE IF priority \notin {JStr("low"), JStr("normal"), JStr("high")}
            THEN http.resp = send_error(400, "Priority must be low, normal, or high")
                 /\ call.name = ""
            ELSE http.resp.status = 201 /\ call.name = "create_task"

\* The parts do_POST splits the last request's path into.
Parts == Split(Strip(http.path), <<>>, <<>>)
\* The last request was routed to _handle_create_task.
OnCreateRoute == http.method = "POST" /\ Parts = <<TasksSeg>>
\* The last request was routed to _handle_complete_task.
OnCompleteRoute ==
    http.method = "POST" /\ Len(Parts) = 3
        /\ Parts[1] = TasksSeg /\ Parts[3] = CompleteSeg
\* A body that is an input error: no JSON text, JSON that is no object, an
\* object without a non-empty title, or without a priority of the enum.
InputErrorBody(body) ==
    LET r == json_loads(body.toks)
    IN  \/ body.enc # "utf8"
        \/ ~r.ok
        \/ r.val.t # "obj"
        \/ Get(r.val, "title") \in {JNull, JStr("")}
        \/ Get(r.val, "priority") \notin {JStr("low"), JStr("normal"), JStr("high")}

\* C11: every POST /tasks whose body is an input error (JSON that is no
\* object included) is answered 400 with a reason text; no exception escapes
\* the handler and the store is not called.
C11_InputErrorsGet400 ==
    (OnCreateRoute /\ InputErrorBody(http.body)) =>
        /\ http.resp.raised = ""
        /\ http.resp.status = 400 /\ http.resp.text # ""
        /\ call.name = ""

\* C12: on a list of tasks, POST /tasks/<id>/complete is answered 200 with an
\* empty body when <id> parses as an integer and a task has that id, done
\* already or not, and 404 with an empty body otherwise; never 400.
C12_CompleteRouteAnswers ==
    (OnCompleteRoute /\ IsCollection(tasks)) =>
        LET task_id == PyInt(Parts[2])
        IN  /\ http.resp.status # 400
            /\ IF task_id.ok /\ task_id.n \in PresentIds(tasks)
               THEN /\ http.resp = send_response(200)
                    /\ IsDone(tasks.items[FirstMatch(tasks.items, task_id.n)])
               ELSE http.resp = send_response(404)
\* The request was repeated for a task an earlier request had completed.
C12_Witness ==
    /\ OnCompleteRoute /\ loaded = JArr(<<>>) /\ Len(created) >= 1
    /\ http.resp = send_response(200)
    /\ call.name = "complete_task" /\ ~call.saved

\* The last request names one of the three routes: GET /tasks, POST /tasks,
\* POST /tasks/<id>/complete.
OnNamedRoute ==
    \/ http.method \in {"GET", "POST"} /\ http.path = TasksPath
    \/ /\ http.method = "POST" /\ Len(Parts) = 3
       /\ http.path = CompletePath(Parts[2])
\* C13: every request of another method or another path is answered 404.
C13_OtherRequestsGet404 ==
    (http.method # "" /\ ~OnNamedRoute) => http.resp = send_response(404)

\* C14: a save() whose I/O failed raises nothing; create_task has appended
\* and returned the new task, complete_task has set the flag and returned
\* True; the file is stale, that is, it still holds what it held before the
\* call; and a save() that succeeds writes the whole collection of that moment.
C14_SaveFailureLeavesFileStale ==
    [][(call'.saved /\ call'.io # "ok") =>
          /\ call'.raised = ""
          /\ call'.name = "create_task" =>
                /\ tasks' = JArr(Append(tasks.items, call'.ret))
                /\ ~IsDone(call'.ret)
          /\ call'.name = "complete_task" =>
                /\ call'.ret = JBool(TRUE)
                /\ IsDone(tasks'.items[FirstMatch(tasks.items, call'.task_id)])
          /\ file' = file]_vars

\* The text is a title of the data model: a non-empty string.
IsTitle(v) == v.t = "str" /\ v.s # ""
IsPriority(v) == v \in {JStr("low"), JStr("normal"), JStr("high")}
\* C15: every task POST /tasks has put into the store has a non-empty text
\* as title, a priority of low, normal, high and was not done when created;
\* and every body whose title or priority is not such is answered 400.
C15_CreatedTasksFitDataModel ==
    /\ \A k \in 1..Len(created) :
          /\ IsTitle(Item(created[k], "title"))
          /\ IsPriority(Item(created[k], "priority"))
          /\ Item(created[k], "isDone") = JBool(FALSE)
    /\ (OnCreateRoute /\ http.body.enc = "utf8" /\ json_loads(http.body.toks).ok
           /\ json_loads(http.body.toks).val.t = "obj") =>
          LET data == json_loads(http.body.toks).val
          IN  (~IsTitle(Get(data, "title")) \/ ~IsPriority(Get(data, "priority")))
                 => http.resp.status = 400

\* C16: on any list of tasks, whatever the order of its ids and the gaps
\* between them, the id create_task assigns is 1 for the empty list and
\* otherwise one more than an id present and larger than every id present.
C16_NewIdAboveAllIds ==
    [][(call'.name = "create_task" /\ call'.raised = "" /\ IsCollection(tasks)) =>
          LET id == Id(call'.ret)
          IN  /\ tasks.items = <<>> => id = 1
              /\ tasks.items # <<>> => (id - 1) \in PresentIds(tasks)
              /\ \A p \in PresentIds(tasks) : p < id
              /\ Id(tasks'.items[Len(tasks'.items)]) = id]_vars
\* create_task was called on a loaded list with ids 12, 1 and gave 13.
C16_Witness ==
    /\ IsCollection(loaded) /\ Ids(loaded) = <<12, 1>>
    /\ call.name = "create_task" /\ Len(created) = 1 /\ Id(created[1]) = 13
    /\ Ids(tasks) = <<12, 1, 13>>

\* C18: a request answered 400 or 404 changes neither the collection nor the
\* file: it creates no task, sets no flag and does not call save().
C18_RejectedRequestsChangeNothing ==
    [][(http'.resp.status \in {400, 404} /\ http' # http) =>
          /\ tasks' = tasks /\ file' = file /\ created' = created
          /\ ~call'.saved
          /\ call'.name \in {"", "complete_task"}]_vars
\* A complete request for an unknown id was answered 404 while the store
\* held a task that was not done.
C18_Witness ==
    /\ http.resp.status = 404 /\ call.name = "complete_task"
    /\ Len(created) >= 1 /\ IsCollection(tasks)
    /\ \E i \in 1..Len(tasks.items) : ~IsDone(tasks.items[i])

\* C17: create_task takes no lock. Two threads that have both computed
\* new_id and of which neither has appended since (the list is as long as
\* when each read it) hold the same id, and each appends the task it built,
\* so the list gets that id twice. When no call of create_task overlapped
\* another, ids stay unique and the file holds the list in memory.
C17_InterleavedCreatesShareId ==
    /\ \A t, u \in Threads :
          (/\ threads[t].pc = "append" /\ threads[u].pc = "append"
           /\ threads[t].seen = Len(tasks.items)
           /\ threads[u].seen = Len(tasks.items)) =>
              Id(threads[t].task) = Id(threads[u].task)
    /\ \A t \in Threads :
          threads[t].pc \in {"open", "close"} =>
              \E i \in 1..Len(tasks.items) : tasks.items[i] = threads[t].task
    /\ \A t, u \in Threads :
          (t # u /\ threads[t].pc \in {"append", "open", "close"}
                 /\ threads[u].pc \in {"open", "close"}
                 /\ Id(threads[t].task) = Id(threads[u].task)) =>
              (threads[t].pc = "append" \/ ~UniqueIds(tasks))
    /\ (pc = "serving" /\ \A t \in Threads : threads[t].pc = "out" /\ ~threads[t].raced) =>
          /\ UniqueIds(loaded) => UniqueIds(tasks)
          /\ created # <<>> => file = TextFile(json_dumps(tasks))
\* Both threads computed id 1 on the empty list and appended; the save of the
\* first wrote its one-task list after the second had appended.
C17_Witness ==
    /\ loaded = JArr(<<>>) /\ Len(tasks.items) = 2 /\ ~UniqueIds(tasks)
    /\ Len(created) = 1 /\ threads["t2"].pc = "open"
    /\ file = TextFile(json_dumps(JArr(<<tasks.items[1]>>)))

\* The step stops the process and starts a new TaskManager on the file.
RestartStep == pc = "serving" /\ call'.name = "load"
\* The collection is one the store held between its startup and now: it has
\* the tasks loaded at startup, its tasks are the first tasks of the present
\* list, and none of them is done that is not done now.
HeldEarlier(old, started, now) ==
    /\ IsCollection(old) /\ IsCollection(started) /\ IsCollection(now)
    /\ Len(started.items) <= Len(old.items) /\ Len(old.items) <= Len(now.items)
    /\ \A i \in 1..Len(old.items) :
          /\ SameButDone(old, now, i)
          /\ IsDone(old.items[i]) => IsDone(now.items[i])
\* The tasks create_task returned have ids in strictly increasing order.
IdsIncrease ==
    \A i, j \in 1..Len(created) : i < j => Id(created[i]) < Id(created[j])

\* C19, first sentence: while no save() has failed, a restart yields the
\* collection held before the stop, and every id create_task assigns is
\* larger than all it assigned before, in this run or an earlier one.
C19_DurableWhileSavesSucceed ==
    /\ [][(RestartStep /\ io_failures = 0) =>
            pc' = "serving" /\ tasks' = tasks]_vars
    /\ [](io_failures = 0 => IdsIncrease)

\* C19: the first sentence, and after a save() that failed the restarted
\* store holds stale contents, that is, a collection the store held earlier.
C19_RestartDurability ==
    /\ C19_DurableWhileSavesSucceed
    /\ [][(RestartStep /\ io_failures > 0) =>
            pc' = "serving" /\ HeldEarlier(tasks', loaded, tasks)]_vars

\* After a failed save() and a restart create_task returned an id again.
C19_IdAssignedAgain ==
    /\ io_failures > 0 /\ ~IdsIncrease /\ call.name = "create_task"

====
